---------------------------- MODULE Spec2Model ----------------------------
(***************************************************************************)
(* SNAC: nitrogen aggregation and cooling history of a two-zone diamond.   *)
(*                                                                         *)
(* Fixed-point conventions (the program computes in floating point):       *)
(*   time         1 tick  = 0.01 Myr, the epsilon of get_durations         *)
(*   cooling rate 1 unit  = 0.01 K/Myr (linear) or 0.01 /Myr (exponential) *)
(*   temperature  1 unit  = 1e-4 K  (= rate unit * tick)                   *)
(*   nitrogen     1 unit  = 1 ppm, rounded down after every kinetics step  *)
(*   aggregation  1 unit  = 1e-3 (c_agg = 863 is 0.863)                    *)
(***************************************************************************)
EXTENDS Integers, Sequences, FiniteSets, TLC

VARIABLES
    call,       \* the activation frame of a direct call of aggregate_and_cool,
                \* or the array a call of get_durations returned
    model,      \* the AggregationModel object (with its Diamond)
    res,        \* the OptimizeResult of the latest op.minimize that returned
    history,    \* the dictionary the latest get_history returned
    last,       \* the latest method call on the model and what it raised
    file,       \* the JSON file the latest to_json wrote
    loaded      \* the AggregationModel the latest from_json returned

vars == <<call, model, res, history, last, file, loaded>>

---------------------------------------------------------------------------
(* Units and bounds *)

\* ticks per Myr: the first checkpoint 0.01 Myr is one tick
Myr == 100

\* temperature units per degree Celsius: a rate unit is 1/Myr of a K/Myr
\* and acts for a tick
Degree == Myr * Myr

\* fixed-point one of the exponential cooling factor exp(-rate * time)
ExpScale == Myr * Myr

\* fixed-point one of the kinetics denominator 1 + k*t*NA
KinScale == 1000000

\* fixed-point one of an aggregation fraction (proportion of N in B-centres)
AggScale == 1000

\* largest zone age of the model, in Myr
MaxAge == 3

---------------------------------------------------------------------------
(* snac/cooling.py *)

linear_cool(T_start, time, rate) == T_start - time * rate

\* exp(-y / ExpScale) * ExpScale for 0 <= y <= ExpScale, third-order series
ExpSeries(y) ==
    ExpScale - y + (y * y) \div (2 * ExpScale)
        - (((y * y) \div ExpScale) * y) \div (6 * ExpScale)

ExpSquare(e) == (e * e) \div ExpScale

\* exp(-x / ExpScale) * ExpScale; exact at x = 0
ExpNeg(x) ==
    IF x >= 8 * ExpScale THEN 0
    ELSE ExpSquare(ExpSquare(ExpSquare(ExpSeries(x \div 8))))

exponential_cool(T_start, time, rate) ==
    LET e == ExpNeg(rate * time)
    IN  (T_start \div ExpScale) * e + ((T_start % ExpScale) * e) \div ExpScale

CoolingFunctions == {"linear_cool", "exponential_cool"}

\* the call cooling_function(T_start, time, rate) through the function reference
cooling(fn, T_start, time, rate) ==
    IF fn = "linear_cool" THEN linear_cool(T_start, time, rate)
    ELSE exponential_cool(T_start, time, rate)

---------------------------------------------------------------------------
(* snac/aggregation.py: kinetics *)

_SCENARIOS == {"continuous", "hot_pulse", "hot_spike", "rapid_ascent", "slow_ascent"}

\* _PREEXP * exp(-_EAR / (T + 273)) * (seconds per Myr), in 1e-6 per ppm per
\* Myr, tabulated at the lower edge of each 50-degree band of T and held
\* constant above 1450 C; below 1150 C it is under 2e-6 and tabulated as 0.
rate_const(T) ==
    LET c == T \div Degree
    IN  IF c < 1150 THEN 0
        ELSE IF c < 1200 THEN 1
        ELSE IF c < 1250 THEN 10
        ELSE IF c < 1300 THEN 66
        ELSE IF c < 1350 THEN 362
        ELSE IF c < 1400 THEN 1776
        ELSE IF c < 1450 THEN 7916
        ELSE 32352

\* variant: the step run backwards, NA * (1 + rate_const * t * NA)
aggregate_reversed(NA, T, d_t) ==
    LET x == ((rate_const(T) * NA) \div Myr) * d_t
    IN  (NA * (KinScale + x)) \div KinScale

\* NA / (1 + rate_const * t * NA), t = d_t ticks
aggregate(NA, T, d_t) ==
    LET x == ((rate_const(T) * NA) \div Myr) * d_t
    IN  (NA * KinScale) \div (KinScale + x)

---------------------------------------------------------------------------
(* snac/aggregation.py: temperature of one checkpoint, branch by branch.   *)
(* sp is scenario_params already unpacked, d the checkpoint's duration.    *)

continuous_T(fn, T_start, rate, d) == cooling(fn, T_start, d, rate)

hot_pulse_before(fn, T_start, rate, sp, d) == cooling(fn, T_start, d, rate)

\* variant: the plateau anchored at the end of the pulse window
hot_pulse_during_from_end(fn, T_start, rate, sp, d) ==
    cooling(fn, T_start, sp[2] + sp[3], rate) + sp[1]

hot_pulse_during(fn, T_start, rate, sp, d) ==
    cooling(fn, T_start, sp[2], rate) + sp[1]

hot_pulse_after(fn, T_start, rate, sp, d) == cooling(fn, T_start, d, rate)

hot_pulse_T(fn, T_start, rate, sp, d) ==
    IF d < sp[2] THEN hot_pulse_before(fn, T_start, rate, sp, d)
    ELSE IF d >= sp[2] /\ d <= sp[2] + sp[3]
         THEN hot_pulse_during(fn, T_start, rate, sp, d)
    ELSE hot_pulse_after(fn, T_start, rate, sp, d)

\* linear interpolation between the spike top and the trajectory at the
\* spike's end; pulse_duration > 0 in every input of the model
hot_spike_during(fn, T_start, rate, sp, d) ==
    LET T_start_pulse == cooling(fn, T_start, sp[2], rate) + sp[1]
        T_after_pulse == cooling(fn, T_start, sp[2] + sp[3], rate)
    IN  T_start_pulse + ((T_after_pulse - T_start_pulse) * (d - sp[2])) \div sp[3]

hot_spike_T(fn, T_start, rate, sp, d) ==
    IF d < sp[2] THEN cooling(fn, T_start, d, rate)
    ELSE IF d >= sp[2] /\ d <= sp[2] + sp[3]
         THEN hot_spike_during(fn, T_start, rate, sp, d)
    ELSE cooling(fn, T_start, d, rate)

rapid_ascent_before(fn, T_start, rate, sp, d) == cooling(fn, T_start, d, rate)

\* variant: the elapsed time not reset at the ascent
rapid_ascent_after_no_reset(fn, T_start, rate, sp, d) ==
    cooling(fn, cooling(fn, T_start, sp[2], rate) - sp[1], d, rate)

rapid_ascent_after(fn, T_start, rate, sp, d) ==
    cooling(fn, cooling(fn, T_start, sp[2], rate) - sp[1], d - sp[2], rate)

rapid_ascent_T(fn, T_start, rate, sp, d) ==
    IF d < sp[2] THEN rapid_ascent_before(fn, T_start, rate, sp, d)
    ELSE rapid_ascent_after(fn, T_start, rate, sp, d)

slow_ascent_before(fn, T_start, rate, sp, d) == cooling(fn, T_start, d, rate)

slow_ascent_during(fn, T_start, rate, sp, d) ==
    LET T_before_ascent == cooling(fn, T_start, sp[2], rate)
    IN  cooling(fn, T_before_ascent, d - sp[2], sp[1])

\* variant: the elapsed time after the ascent counted from its start
slow_ascent_after_from_start(fn, T_start, rate, sp, d) ==
    LET T_before_ascent == cooling(fn, T_start, sp[2], rate)
        T_after_ascent == cooling(fn, T_before_ascent, sp[3], sp[1])
    IN  cooling(fn, T_after_ascent, d - sp[2], rate)

slow_ascent_after(fn, T_start, rate, sp, d) ==
    LET T_before_ascent == cooling(fn, T_start, sp[2], rate)
        T_after_ascent == cooling(fn, T_before_ascent, sp[3], sp[1])
    IN  cooling(fn, T_after_ascent, d - (sp[2] + sp[3]), rate)

slow_ascent_T(fn, T_start, rate, sp, d) ==
    IF d < sp[2] THEN slow_ascent_before(fn, T_start, rate, sp, d)
    ELSE IF d >= sp[2] /\ d <= sp[2] + sp[3]
         THEN slow_ascent_during(fn, T_start, rate, sp, d)
    ELSE slow_ascent_after(fn, T_start, rate, sp, d)

\* number of values the scenario unpacks from scenario_params (0: not read)
Arity(scn) ==
    IF scn = "continuous" THEN 0
    ELSE IF scn = "rapid_ascent" THEN 2
    ELSE 3

\* scenario_params = None is the empty sequence; a tuple has its length
UnpackOk(scn, sp) == Arity(scn) = 0 \/ Len(sp) = Arity(scn)

UnpackError(sp) ==
    IF Len(sp) = 0 THEN "TypeError: cannot unpack NoneType"
    ELSE "ValueError: wrong number of values to unpack"

ScenarioT(scn, fn, T_start, rate, sp, d) ==
    IF scn = "continuous" THEN continuous_T(fn, T_start, rate, d)
    ELSE IF scn = "hot_pulse" THEN hot_pulse_T(fn, T_start, rate, sp, d)
    ELSE IF scn = "hot_spike" THEN hot_spike_T(fn, T_start, rate, sp, d)
    ELSE IF scn = "rapid_ascent" THEN rapid_ascent_T(fn, T_start, rate, sp, d)
    ELSE slow_ascent_T(fn, T_start, rate, sp, d)

---------------------------------------------------------------------------
(* snac/aggregation.py: aggregate_and_cool as an activation frame.         *)
(* One frame is one call; LoopBody is one pass of the for loop, Epilogue   *)
(* the code after the loop.  c_NA1 and r_NA1 only ever hold a copy of      *)
(* c_NA0 and r_NA0 and are not kept.                                       *)

\* float('nan'): compares false with everything in the program
NaN == 0 - 1

\* the scaling factor of the objective
ErrorScale == 1000

NoFrame == [pc |-> "idle"]

\* unpacking of params, args and kwargs, and the initialisations.
\* ndarray: durations is a numpy array (numpy scalars divide by zero to nan,
\* Python numbers raise).
Enter(params, durations, ndarray, age_core, age_rim, c_NT, r_NT, c_agg, r_agg, cooling_function, T_scenario, scenario_params, return_history) ==
    [pc |-> "loop", exc |-> "none",
     T_start |-> params[1], cooling_rate |-> params[2],
     durations |-> durations, ndarray |-> ndarray,
     age_core |-> age_core, age_rim |-> age_rim,
     c_NT |-> c_NT, r_NT |-> r_NT, c_agg |-> c_agg, r_agg |-> r_agg,
     cooling_function |-> cooling_function, T_scenario |-> T_scenario,
     scenario_params |-> scenario_params, return_history |-> return_history,
     c_NA0 |-> c_NT, r_NA0 |-> r_NT, c_np |-> FALSE, r_np |-> FALSE,
     i |-> 0, NA_core |-> <<>>, NA_rim |-> <<>>, T_all |-> <<>>,
     error |-> 0]

Raise(f, e) == [f EXCEPT !.pc = "raised", !.exc = e]

\* duration increment of checkpoint number i (0-based) of the list
TimeDelta(durations, i) ==
    IF i = 0 THEN durations[1] ELSE durations[i + 1] - durations[i]

\* the branch "before rim grows, only core aggregates" or the branch "after
\* rim has grown": the core is stepped in both
CoreSteps(age_core, duration, age_rim) ==
    (age_core - duration) > age_rim \/ (age_core - duration) < age_rim

\* variant: the elapsed time compared with the rim age
RimStepsElapsed(age_core, duration, age_rim) == duration > age_rim

\* the branch "after rim has grown, core and rim now both aggregate"
RimSteps(age_core, duration, age_rim) == (age_core - duration) < age_rim

LoopBody(f) ==
    LET duration == f.durations[f.i + 1]
    IN  IF f.T_scenario \notin _SCENARIOS
        THEN Raise(f, "ValueError: Invalid T_scenario")
        ELSE IF ~UnpackOk(f.T_scenario, f.scenario_params)
        THEN Raise(f, UnpackError(f.scenario_params))
        ELSE
        LET T == ScenarioT(f.T_scenario, f.cooling_function, f.T_start,
                           f.cooling_rate, f.scenario_params, duration)
            d_t == TimeDelta(f.durations, f.i)
            core == CoreSteps(f.age_core, duration, f.age_rim)
            rim == RimSteps(f.age_core, duration, f.age_rim)
            c == IF core THEN aggregate(f.c_NA0, T, d_t) ELSE f.c_NA0
            r == IF rim THEN aggregate(f.r_NA0, T, d_t) ELSE f.r_NA0
        IN  [f EXCEPT !.c_NA0 = c, !.r_NA0 = r,
                      !.c_np = @ \/ (core /\ f.ndarray),
                      !.r_np = @ \/ (rim /\ f.ndarray),
                      !.i = @ + 1,
                      !.NA_core = Append(@, c),
                      !.NA_rim = Append(@, r),
                      !.T_all = Append(@, T)]

\* 1 - NA_final / N_total
AggModel(NA, NT) == AggScale - (AggScale * NA) \div NT

Epilogue(f) ==
    IF Len(f.NA_core) = 0 THEN Raise(f, "IndexError: list index out of range")
    ELSE IF (f.c_NT = 0 /\ ~f.c_np) \/ (f.r_NT = 0 /\ ~f.r_np)
    THEN Raise(f, "ZeroDivisionError")
    ELSE IF f.c_NT = 0 \/ f.r_NT = 0
    THEN [f EXCEPT !.pc = "returned", !.error = NaN]
    ELSE
    LET c_agg_model == AggModel(f.NA_core[Len(f.NA_core)], f.c_NT)
        r_agg_model == AggModel(f.NA_rim[Len(f.NA_rim)], f.r_NT)
        dr == f.r_agg - r_agg_model
        dc == f.c_agg - c_agg_model
    IN  [f EXCEPT !.pc = "returned",
                  !.error = (dr * dr + dc * dc) * ErrorScale]

\* the whole call: what the frame is when the function returns or raises
RECURSIVE RunFrame(_)
RunFrame(f) ==
    IF f.pc # "loop" THEN f
    ELSE IF f.i < Len(f.durations) THEN RunFrame(LoopBody(f))
    ELSE Epilogue(f)

---------------------------------------------------------------------------
(* snac/SNACmodel.py: get_durations *)

\* np.arange(0., duration_core + 1, dt) for dt > 0, first element set to 0.01.
\* An empty range has no first element: the assignment raises IndexError,
\* modelled as the empty sequence never being returned (GetDurationsOk).
ArangeLen(stop, dt) == IF stop <= 0 THEN 0 ELSE (stop + dt - 1) \div dt

GetDurationsOk(age_core, age_kimberlite, dt) ==
    ArangeLen(age_core - age_kimberlite + Myr, dt) > 0

get_durations(age_core, age_kimberlite, dt) ==
    [k \in 1..ArangeLen(age_core - age_kimberlite + Myr, dt) |->
        IF k = 1 THEN 1 ELSE (k - 1) * dt]

---------------------------------------------------------------------------
(* Inputs of the model *)

Ages == {a * Myr : a \in 0..MaxAge}

TimeSteps == {Myr \div 2, Myr, 2 * Myr}

NitrogenTotals == {0, 625, 801}

StartTemperatures == {1200 * Degree, 1350 * Degree}

CoolingRates == {12, 2500}

\* scenario_params: None, a pair (T_drop, t_ascent), triples
\* (T_pulse | rate_ascent, t_start, duration > 0), a triple of zero duration
ScenarioParams ==
    { <<>>,
      <<50 * Degree, Myr>>,
      <<50 * Degree, Myr, Myr>>,
      <<40, Myr, Myr \div 2>>,
      <<0, 2 * Myr, Myr \div 2>>,
      <<40, Myr, 0>> }

\* hot_spike divides by pulse_duration
ParamsModelled(scn, sp) == ~(scn = "hot_spike" /\ Len(sp) = 3 /\ sp[3] = 0)

ScenarioNames == _SCENARIOS \cup {"bogus"}

---------------------------------------------------------------------------
(* Direct calls of aggregate_and_cool, one loop pass per step *)

InitEngine ==
    /\ \E T_start \in StartTemperatures, cooling_rate \in CoolingRates,
          age_core \in Ages, age_rim \in Ages, age_kimberlite \in {0},
          dt \in TimeSteps, c_NT \in NitrogenTotals, r_NT \in NitrogenTotals,
          fn \in CoolingFunctions, scn \in ScenarioNames,
          sp \in ScenarioParams, empty \in BOOLEAN, ndarray \in BOOLEAN :
        /\ age_kimberlite <= age_core
        /\ ParamsModelled(scn, sp)
        /\ (empty => ~ndarray)
        /\ call = Enter(<<T_start, cooling_rate>>,
                        IF empty THEN <<>>
                        ELSE get_durations(age_core, age_kimberlite, dt),
                        ndarray,
                        age_core, age_rim, c_NT, r_NT, 863, 197,
                        fn, scn, sp, FALSE)
    /\ model = [exists |-> FALSE]
    /\ res = [present |-> FALSE]
    /\ history = [exists |-> FALSE]
    /\ last = [op |-> "none", exc |-> "none"]
    /\ file = [exists |-> FALSE]
    /\ loaded = [exists |-> FALSE]

Checkpoint ==
    /\ call.pc = "loop"
    /\ call.i < Len(call.durations)
    /\ call' = LoopBody(call)
    /\ UNCHANGED <<model, res, history, last, file, loaded>>

Return ==
    /\ call.pc = "loop"
    /\ call.i = Len(call.durations)
    /\ call' = Epilogue(call)
    /\ UNCHANGED <<model, res, history, last, file, loaded>>

NextEngine == Checkpoint \/ Return

SpecEngine == InitEngine /\ [][NextEngine]_vars

---------------------------------------------------------------------------
(* snac/diamond.py and snac/SNACmodel.py: the AggregationModel object *)

Diamond(age_core, age_rim, age_kimberlite, c_NT, c_agg, r_NT, r_agg) ==
    [age_core |-> age_core, age_rim |-> age_rim,
     age_kimberlite |-> age_kimberlite,
     c_NT |-> c_NT, c_agg |-> c_agg, r_NT |-> r_NT, r_agg |-> r_agg]

\* the attributes run adds to the object
ResultAttrs ==
    {"model_results", "model_success", "model_status", "model_message"}

\* the object after __init__: attrs are the result attributes the object
\* has; the value of an attribute it does not have is never read
NewModel(diamond, cooling_rate0, T_start0, rate_bounds, T_bounds, dt, T_scenario, scenario_params, cooling_function) ==
    [exists |-> TRUE, diamond |-> diamond,
     cooling_rate0 |-> cooling_rate0, T_start0 |-> T_start0,
     rate_bounds |-> rate_bounds, T_bounds |-> T_bounds, dt |-> dt,
     T_scenario |-> T_scenario, scenario_params |-> scenario_params,
     cooling_function |-> cooling_function,
     fitted |-> FALSE, attrs |-> {},
     model_results |-> <<0, 0>>, model_success |-> FALSE,
     model_status |-> 0, model_message |-> ""]

\* aggregate_and_cool_partial(...)(params, get_durations(), diamond fields):
\* the frame the call ends in.  get_durations raises IndexError on an empty
\* range before the engine is entered.
CallEngine(m, params, return_history) ==
    IF ~GetDurationsOk(m.diamond.age_core, m.diamond.age_kimberlite, m.dt)
    THEN [pc |-> "raised",
          exc |-> "IndexError: index 0 is out of bounds"]
    ELSE RunFrame(Enter(params,
                        get_durations(m.diamond.age_core,
                                      m.diamond.age_kimberlite, m.dt),
                        TRUE,
                        m.diamond.age_core, m.diamond.age_rim,
                        m.diamond.c_NT, m.diamond.r_NT,
                        m.diamond.c_agg, m.diamond.r_agg,
                        m.cooling_function, m.T_scenario, m.scenario_params,
                        return_history))

\* what the objective raises when the optimizer evaluates it ("none": it
\* returns a value); the parameter pair does not decide it
ObjectiveRaises(m) ==
    LET f == CallEngine(m, <<m.T_start0, m.cooling_rate0>>, FALSE)
    IN  IF f.pc = "raised" THEN f.exc ELSE "none"

OptimizerMessage(status) ==
    IF status = 0 THEN "CONVERGENCE" ELSE "STOP: ITERATIONS REACHED LIMIT"

\* what op.minimize can return: a point of the box and the convergence
\* report; success is status = 0
OptimizeResults(m) ==
    { [present |-> TRUE, x |-> x, success |-> (status = 0),
       status |-> status, message |-> OptimizerMessage(status)] :
        x \in { <<m.T_bounds[1], m.rate_bounds[2]>>,
                <<m.T_bounds[2], m.rate_bounds[1]>> },
        status \in {0, 1} }

\* variant: status and message stored only when the fit converged
StoreResultOnSuccess(m, r) ==
    IF r.success
    THEN [m EXCEPT !.model_results = r.x, !.model_success = r.success,
                   !.model_status = r.status, !.model_message = r.message,
                   !.attrs = ResultAttrs, !.fitted = TRUE]
    ELSE [m EXCEPT !.model_results = r.x, !.model_success = r.success,
                   !.attrs = @ \cup {"model_results", "model_success"},
                   !.fitted = TRUE]

\* variant: the fitted pair also written back as the next initial guesses
StoreResultAsGuess(m, r) ==
    [m EXCEPT !.model_results = r.x, !.model_success = r.success,
              !.model_status = r.status, !.model_message = r.message,
              !.attrs = @ \cup ResultAttrs, !.fitted = TRUE,
              !.T_start0 = r.x[1], !.cooling_rate0 = r.x[2]]

\* the five assignments that end run
StoreResult(m, r) ==
    [m EXCEPT !.model_results = r.x, !.model_success = r.success,
              !.model_status = r.status, !.model_message = r.message,
              !.attrs = @ \cup ResultAttrs, !.fitted = TRUE]

\* get_history: the pair the trace is computed from
TraceParams(m) ==
    IF m.fitted THEN m.model_results ELSE <<m.T_start0, m.cooling_rate0>>

\* variant: the initial guesses reported whatever the fitted flag
ReportedGuesses(m) == <<m.T_start0, m.cooling_rate0>>

\* get_history: the pair reported as 'T_start' and 'cooling_rate'
ReportedParams(m) ==
    IF m.fitted THEN <<m.model_results[1], m.model_results[2]>>
    ELSE <<m.T_start0, m.cooling_rate0>>

\* N_B = N_T - N_A, element by element
NB(NT, NA) == [k \in 1..Len(NA) |-> NT - NA[k]]

HistoryOf(m, f) ==
    [exists |-> TRUE,
     durations |-> get_durations(m.diamond.age_core,
                                 m.diamond.age_kimberlite, m.dt),
     T_start |-> ReportedParams(m)[1],
     cooling_rate |-> ReportedParams(m)[2],
     T_all |-> f.T_all, NA_core |-> f.NA_core, NA_rim |-> f.NA_rim,
     NB_core |-> NB(m.diamond.c_NT, f.NA_core),
     NB_rim |-> NB(m.diamond.r_NT, f.NA_rim)]

\* the samples and configurations of the model
Diamonds ==
    { Diamond(age_core, age_rim, age_kimberlite, 625, 863, r_NT, 197) :
        age_core \in Ages \ {0}, age_rim \in Ages,
        age_kimberlite \in {0, (MaxAge + 1) * Myr}, r_NT \in {0, 801} }

\* defaults of __init__; the default lower rate bound 0.001 is below the
\* resolution and is 0.01 here
DefaultRate0 == 1
DefaultTStart0 == 1200 * Degree
DefaultRateBounds == <<1, 12>>
DefaultTBounds == <<1000 * Degree, 1450 * Degree>>

Init ==
    /\ call = NoFrame
    /\ model = [exists |-> FALSE]
    /\ res = [present |-> FALSE]
    /\ history = [exists |-> FALSE]
    /\ last = [op |-> "none", exc |-> "none"]
    /\ file = [exists |-> FALSE]
    /\ loaded = [exists |-> FALSE]

\* AggregationModel(diamond, ...)
Construct ==
    /\ ~model.exists
    /\ \E diamond \in Diamonds, scn \in ScenarioNames, sp \in ScenarioParams,
          fn \in CoolingFunctions :
        /\ ParamsModelled(scn, sp)
        /\ IF scn \notin _SCENARIOS
           THEN /\ last' = [op |-> "__init__",
                            exc |-> "ValueError: Unrecognised scenario"]
                /\ UNCHANGED model
           ELSE /\ model' = NewModel(diamond, DefaultRate0, DefaultTStart0,
                                     DefaultRateBounds, DefaultTBounds, Myr,
                                     scn, sp, fn)
                /\ last' = [op |-> "__init__", exc |-> "none"]
    /\ UNCHANGED <<call, res, history, file, loaded>>

\* model.run()
Run ==
    /\ model.exists
    /\ LET e == ObjectiveRaises(model)
       IN  IF e # "none"
           THEN /\ last' = [op |-> "run", exc |-> e]
                /\ UNCHANGED <<model, res>>
           ELSE \E r \in OptimizeResults(model) :
                    /\ res' = r
                    /\ model' = StoreResult(model, r)
                    /\ last' = [op |-> "run", exc |-> "none"]
    /\ UNCHANGED <<call, history, file, loaded>>

\* model.get_history()
GetHistory ==
    /\ model.exists
    /\ LET f == CallEngine(model, TraceParams(model), TRUE)
       IN  IF f.pc = "raised"
           THEN /\ last' = [op |-> "get_history", exc |-> f.exc]
                /\ UNCHANGED history
           ELSE /\ history' = HistoryOf(model, f)
                /\ last' = [op |-> "get_history", exc |-> "none"]
    /\ UNCHANGED <<call, model, res, file, loaded>>

Next == Construct \/ Run \/ GetHistory

Spec == Init /\ [][Next]_vars

---------------------------------------------------------------------------
(* snac/SNACmodel.py: to_json and from_json.  A JSON array is a sequence,  *)
(* like the tuple it is written from and the tuple from_json makes of it;  *)
(* a number is read back as the number that was written.                   *)

\* the keys to_json writes for every model
ConfigKeys ==
    {"diamond", "cooling_rate0", "T_start0", "rate_bounds", "T_bounds", "dt",
     "T_scenario", "scenario_params"}

\* the dictionary to_json dumps; keys are the keys it has, and the value of
\* a key it does not have is never read
to_json(m) ==
    [exists |-> TRUE,
     keys |-> ConfigKeys \cup (IF m.fitted THEN {"model_results"} ELSE {}),
     diamond |-> [age_core |-> m.diamond.age_core,
                  age_rim |-> m.diamond.age_rim,
                  age_kimberlite |-> m.diamond.age_kimberlite,
                  c_NT |-> m.diamond.c_NT, c_agg |-> m.diamond.c_agg,
                  r_NT |-> m.diamond.r_NT, r_agg |-> m.diamond.r_agg],
     cooling_rate0 |-> m.cooling_rate0, T_start0 |-> m.T_start0,
     rate_bounds |-> m.rate_bounds, T_bounds |-> m.T_bounds, dt |-> m.dt,
     T_scenario |-> m.T_scenario, scenario_params |-> m.scenario_params,
     model_results |-> IF m.fitted
                       THEN [initial_T |-> m.model_results[1],
                             cooling_rate |-> m.model_results[2]]
                       ELSE [initial_T |-> 0, cooling_rate |-> 0]]

\* what from_json(filepath) raises on the dictionary it loaded, with no
\* diamond argument ("none": it returns a model)
FromJsonRaises(data) ==
    IF "diamond" \notin data.keys THEN "ValueError: Diamond data is required"
    ELSE IF data.T_scenario \notin _SCENARIOS
    THEN "ValueError: Unrecognised scenario"
    ELSE "none"

\* the model from_json builds: cls(...) is given the Diamond and eight
\* configuration values, and no cooling_function
from_json(data) ==
    NewModel(Diamond(data.diamond.age_core, data.diamond.age_rim,
                     data.diamond.age_kimberlite,
                     data.diamond.c_NT, data.diamond.c_agg,
                     data.diamond.r_NT, data.diamond.r_agg),
             data.cooling_rate0, data.T_start0,
             data.rate_bounds, data.T_bounds, data.dt,
             data.T_scenario, data.scenario_params, "linear_cool")

\* model.to_json(filepath)
ToJson ==
    /\ model.exists
    /\ file' = to_json(model)
    /\ last' = [op |-> "to_json", exc |-> "none"]
    /\ UNCHANGED <<call, model, res, history, loaded>>

\* AggregationModel.from_json(filepath)
FromJson ==
    /\ file.exists
    /\ LET e == FromJsonRaises(file)
       IN  IF e # "none"
           THEN /\ last' = [op |-> "from_json", exc |-> e]
                /\ UNCHANGED loaded
           ELSE /\ loaded' = from_json(file)
                /\ last' = [op |-> "from_json", exc |-> "none"]
    /\ UNCHANGED <<call, model, res, history, file>>

NextJson == Construct \/ Run \/ ToJson \/ FromJson

SpecJson == Init /\ [][NextJson]_vars

---------------------------------------------------------------------------
(* autoSNAC.py: the driver model(save_dir, model_data, diamond_data, ...)  *)

\* the methods class AggregationModel defines; nothing else is callable on
\* an instance (the class has no __getattr__ and no base class)
AggregationModelMethods ==
    {"__init__", "aggregate_and_cool_partial", "get_durations", "run",
     "get_history", "plot_T_history", "plot_aggregation_history",
     "save_history", "to_json", "from_json", "__str__"}

\* the method the driver calls on the model to fit it
DriverFitCall == "optimise_history"

AttributeErrorOf(name) ==
    IF name = "optimise_history"
    THEN "AttributeError: no attribute 'optimise_history'"
    ELSE "AttributeError"

\* the driver from "# Run the model" on, for the model m it was given or
\* has built: the fitting call, the print of model_results, to_json and
\* save_history (which calls get_history).  A name that is not a method
\* raises AttributeError at the call; the fitting method of the class is
\* run.
DriverReport(m) ==
    IF DriverFitCall \notin AggregationModelMethods
    THEN /\ model' = m
         /\ last' = [op |-> "autoSNAC.model",
                     exc |-> AttributeErrorOf(DriverFitCall)]
         /\ UNCHANGED <<res, history, file>>
    ELSE LET e == ObjectiveRaises(m)
         IN  IF e # "none"
             THEN /\ model' = m
                  /\ last' = [op |-> "autoSNAC.model", exc |-> e]
                  /\ UNCHANGED <<res, history, file>>
             ELSE \E r \in OptimizeResults(m) :
                    LET fit == StoreResult(m, r)
                        f == CallEngine(fit, TraceParams(fit), TRUE)
                    IN  /\ model' = fit
                        /\ res' = r
                        /\ file' = to_json(fit)
                        /\ IF f.pc = "raised"
                           THEN /\ last' = [op |-> "autoSNAC.model",
                                            exc |-> f.exc]
                                /\ UNCHANGED history
                           ELSE /\ history' = HistoryOf(fit, f)
                                /\ last' = [op |-> "autoSNAC.model",
                                            exc |-> "none"]

\* model(save_dir, model_data=m) with m the AggregationModel instance
AutoSNACFromModel ==
    /\ model.exists
    /\ DriverReport(model)
    /\ UNCHANGED <<call, loaded>>

\* model(save_dir, diamond_data=d, cooling_rate0=..., T_start0=...,
\* rate_bounds=..., T_bounds=...) with d a Diamond instance; given: none of
\* the four values is None
AutoSNACFromDiamond ==
    /\ ~model.exists
    /\ \E diamond \in Diamonds, given \in BOOLEAN :
        IF ~given
        THEN /\ last' = [op |-> "autoSNAC.model",
                         exc |-> "ValueError: must be provided"]
             /\ UNCHANGED <<model, res, history, file>>
        ELSE DriverReport(NewModel(diamond, DefaultRate0, DefaultTStart0,
                                   DefaultRateBounds, DefaultTBounds, Myr,
                                   "continuous", <<>>, "linear_cool"))
    /\ UNCHANGED <<call, loaded>>

NextDriver == Construct \/ AutoSNACFromModel \/ AutoSNACFromDiamond

SpecDriver == Init /\ [][NextDriver]_vars

---------------------------------------------------------------------------
(* snac/SNACmodel.py: get_durations called on a model built with a time    *)
(* step of the caller's choice, AggregationModel(diamond, dt=dt)           *)

\* ages in steps of half a Myr
DurationAges == {a * (Myr \div 2) : a \in 0..(2 * MaxAge)}

\* time steps: the epsilon 0.01 Myr itself, 0.5, 1 (the default) and 2 Myr
DurationTimeSteps == {1, Myr \div 2, Myr, 2 * Myr}

InitDurations ==
    /\ \E age_core \in DurationAges, age_kimberlite \in DurationAges,
          dt \in DurationTimeSteps :
        model = NewModel(Diamond(age_core, 0, age_kimberlite,
                                 625, 863, 801, 197),
                         DefaultRate0, DefaultTStart0, DefaultRateBounds,
                         DefaultTBounds, dt, "continuous", <<>>,
                         "linear_cool")
    /\ call = NoFrame
    /\ res = [present |-> FALSE]
    /\ history = [exists |-> FALSE]
    /\ last = [op |-> "none", exc |-> "none"]
    /\ file = [exists |-> FALSE]
    /\ loaded = [exists |-> FALSE]

\* model.get_durations(): call holds the array it returned
GetDurations ==
    /\ model.exists
    /\ call = NoFrame
    /\ IF ~GetDurationsOk(model.diamond.age_core,
                          model.diamond.age_kimberlite, model.dt)
       THEN /\ last' = [op |-> "get_durations",
                        exc |-> "IndexError: index 0 is out of bounds"]
            /\ UNCHANGED call
       ELSE /\ call' = [pc |-> "durations",
                        durations |-> get_durations(
                                        model.diamond.age_core,
                                        model.diamond.age_kimberlite,
                                        model.dt)]
            /\ last' = [op |-> "get_durations", exc |-> "none"]
    /\ UNCHANGED <<model, res, history, file, loaded>>

NextDurations == GetDurations

SpecDurations == InitDurations /\ [][NextDurations]_vars

---------------------------------------------------------------------------
(* Properties of aggregate_and_cool, over the frames of SpecEngine *)

\* the checkpoints the loop has passed so far
Evaluated == 1..Len(call.T_all)

\* value of a zone before checkpoint k: the total nitrogen, or the entry of
\* checkpoint k - 1
Before(NA, NT, k) == IF k = 1 THEN NT ELSE NA[k - 1]

\* the frame unpacked its scenario parameters (or needs none)
Unpacked == call.T_scenario \in _SCENARIOS
                /\ UnpackOk(call.T_scenario, call.scenario_params)

\* C1 (as claimed): at every checkpoint, whatever the relation of
\* age_core - duration to age_rim, the core concentration is the kinetics
\* step of its previous value with that checkpoint's temperature and time
\* delta.
C1_CoreSteppedAtEveryCheckpoint ==
    \A k \in Evaluated :
        call.NA_core[k] =
            aggregate(Before(call.NA_core, call.c_NT, k), call.T_all[k],
                      TimeDelta(call.durations, k - 1))

\* C2 (as claimed): the rim concentration is r_NT at every checkpoint with
\* age_core - duration > age_rim, and is the kinetics step of its previous
\* value at every checkpoint with age_core - duration <= age_rim.
C2_RimSteppedOnceGrown ==
    \A k \in Evaluated :
        IF call.age_core - call.durations[k] > call.age_rim
        THEN call.NA_rim[k] = call.r_NT
        ELSE call.NA_rim[k] =
                aggregate(Before(call.NA_rim, call.r_NT, k), call.T_all[k],
                          TimeDelta(call.durations, k - 1))

\* C3: with age_core = age_rim and the same total nitrogen in both zones,
\* the rim history equals the core history at every checkpoint.
C3_EqualAgesEqualHistories ==
    (call.age_core = call.age_rim /\ call.c_NT = call.r_NT)
        => \A k \in Evaluated : call.NA_rim[k] = call.NA_core[k]

\* a returned call with equal ages and equal nitrogen whose steps changed
\* the concentrations over at least two checkpoints
C3_Witness ==
    /\ call.pc = "returned"
    /\ call.age_core = call.age_rim
    /\ call.c_NT = call.r_NT
    /\ Len(call.NA_rim) >= 2
    /\ call.NA_rim[Len(call.NA_rim)] < call.NA_rim[1]
    /\ call.NA_rim[1] < call.r_NT

\* The cooling laws are continuous in time, so the one-sided limit of a
\* branch at a boundary is the branch's expression at the boundary.

\* C4 (as claimed): hot_pulse, linear law: the value the pulse branch gives
\* at duration = t_pulse_start (as a checkpoint there records it) equals
\* the limit of the pre-pulse branch at t_pulse_start.
C4_HotPulseContinuousAtEntry ==
    (call.T_scenario = "hot_pulse" /\ Unpacked
        /\ call.cooling_function = "linear_cool")
        => \A k \in Evaluated :
             call.durations[k] = call.scenario_params[2]
                => call.T_all[k] =
                     hot_pulse_before(call.cooling_function, call.T_start,
                                      call.cooling_rate, call.scenario_params,
                                      call.scenario_params[2])

\* C4 (amended): at the pulse entry the temperature steps up by exactly
\* T_pulse: the pulse branch at t_pulse_start is the pre-pulse limit plus
\* T_pulse, and a checkpoint at t_pulse_start records that value.
C4_HotPulseEntryStep ==
    (call.T_scenario = "hot_pulse" /\ Unpacked)
        => LET sp == call.scenario_params
               limit == hot_pulse_before(call.cooling_function, call.T_start,
                                         call.cooling_rate, sp, sp[2])
           IN  /\ hot_pulse_during(call.cooling_function, call.T_start,
                                   call.cooling_rate, sp, sp[2])
                    = limit + sp[1]
               /\ \A k \in Evaluated :
                    call.durations[k] = sp[2] => call.T_all[k] = limit + sp[1]

\* a hot_pulse call with T_pulse # 0 that has passed a checkpoint at
\* t_pulse_start
C4_Witness ==
    /\ call.T_scenario = "hot_pulse" /\ Unpacked
    /\ call.cooling_function = "linear_cool"
    /\ call.scenario_params[1] # 0
    /\ \E k \in Evaluated : call.durations[k] = call.scenario_params[2]

\* C5: rapid_ascent, linear law: every checkpoint at or after t_ascent is
\* the unperturbed cooling-law value minus T_drop, every earlier one the
\* unperturbed value.
C5_RapidAscentDrop ==
    (call.T_scenario = "rapid_ascent" /\ Unpacked
        /\ call.cooling_function = "linear_cool")
        => \A k \in Evaluated :
             LET d == call.durations[k]
                 unperturbed == linear_cool(call.T_start, d, call.cooling_rate)
             IN  call.T_all[k] =
                    IF d >= call.scenario_params[2]
                    THEN unperturbed - call.scenario_params[1]
                    ELSE unperturbed

\* a returned rapid_ascent call with checkpoints before and after t_ascent,
\* a nonzero drop and a nonzero rate
C5_Witness ==
    /\ call.pc = "returned"
    /\ call.T_scenario = "rapid_ascent" /\ Unpacked
    /\ call.cooling_function = "linear_cool"
    /\ call.scenario_params[1] # 0
    /\ call.cooling_rate # 0
    /\ \E k \in Evaluated : call.durations[k] < call.scenario_params[2]
    /\ \E k \in Evaluated : call.durations[k] > call.scenario_params[2]

\* C6: slow_ascent, either law: the ascent branch at t_ascent_start is the
\* cooling-law value there, the post-ascent branch's limit at the end of the
\* ascent is the ascent branch's value there, and checkpoints at the two
\* boundaries record these values.
C6_SlowAscentContinuous ==
    (call.T_scenario = "slow_ascent" /\ Unpacked)
        => LET sp == call.scenario_params
               fn == call.cooling_function
               entry == cooling(fn, call.T_start, sp[2], call.cooling_rate)
               exit == slow_ascent_during(fn, call.T_start, call.cooling_rate,
                                          sp, sp[2] + sp[3])
           IN  /\ slow_ascent_during(fn, call.T_start, call.cooling_rate,
                                     sp, sp[2]) = entry
               /\ slow_ascent_after(fn, call.T_start, call.cooling_rate,
                                    sp, sp[2] + sp[3]) = exit
               /\ \A k \in Evaluated :
                    /\ call.durations[k] = sp[2] => call.T_all[k] = entry
                    /\ call.durations[k] = sp[2] + sp[3]
                         => call.T_all[k] = exit

\* a returned slow_ascent call with a positive ascent duration and nonzero
\* rates that has passed checkpoints at the start and at the end of the
\* ascent and one after it
C6_Witness ==
    /\ call.pc = "returned"
    /\ call.T_scenario = "slow_ascent" /\ Unpacked
    /\ call.scenario_params[3] > 0
    /\ call.scenario_params[1] # 0
    /\ call.cooling_rate # 0
    /\ \E k \in Evaluated : call.durations[k] = call.scenario_params[2]
    /\ \E k \in Evaluated :
         call.durations[k] = call.scenario_params[2] + call.scenario_params[3]
    /\ \E k \in Evaluated :
         call.durations[k] > call.scenario_params[2] + call.scenario_params[3]

\* C7 (as claimed, direct call): a call with an unknown scenario name ends
\* with the invalid-scenario ValueError, for every durations sequence, with
\* no temperature computed, no kinetics step applied and nothing appended.
C7_UnknownScenarioRejected ==
    (call.pc # "loop" /\ call.T_scenario \notin _SCENARIOS)
        => /\ call.pc = "raised"
           /\ call.exc = "ValueError: Invalid T_scenario"
           /\ call.T_all = <<>> /\ call.NA_core = <<>> /\ call.NA_rim = <<>>
           /\ call.c_NA0 = call.c_NT /\ call.r_NA0 = call.r_NT

\* the temperatures of the checkpoints passed are non-negative and their
\* time deltas strictly positive
PhysicalSoFar ==
    \A k \in Evaluated :
        /\ call.T_all[k] >= 0
        /\ TimeDelta(call.durations, k - 1) > 0

\* C13: with non-negative temperatures and strictly positive time deltas
\* the A-centre concentration of each zone never increases from one
\* checkpoint to the next, the first entry is at most the zone's total
\* nitrogen, and a kinetics step of a non-negative concentration returns a
\* value between 0 and that concentration.
C13_ACentresNeverIncrease ==
    PhysicalSoFar =>
        \A k \in Evaluated :
            LET c0 == Before(call.NA_core, call.c_NT, k)
                r0 == Before(call.NA_rim, call.r_NT, k)
                d_t == TimeDelta(call.durations, k - 1)
            IN  /\ call.NA_core[k] \in 0..c0
                /\ call.NA_rim[k] \in 0..r0
                /\ rate_const(call.T_all[k]) >= 0
                /\ aggregate(c0, call.T_all[k], d_t) \in 0..c0
                /\ aggregate(r0, call.T_all[k], d_t) \in 0..r0

\* a returned call of at least three checkpoints in which both zones lost
\* A-centres, the core already at the first checkpoint
C13_Witness ==
    /\ call.pc = "returned"
    /\ PhysicalSoFar
    /\ Len(call.NA_core) >= 3
    /\ call.NA_core[1] < call.c_NT
    /\ call.NA_core[Len(call.NA_core)] < call.NA_core[1]
    /\ call.NA_rim[Len(call.NA_rim)] < call.r_NT
    /\ call.age_rim < call.age_core

\* C14 (as claimed): the scalar aggregate_and_cool returns is >= 0 (a
\* comparison nan fails), it is 1000 times the sum of the squared
\* differences between the observed and the modelled aggregation fractions
\* of the rim and of the core, and it is 0 only when both differences are 0.
C14_ObjectiveNonNegative ==
    (call.pc = "returned" /\ ~call.return_history)
        => /\ call.error # NaN
           /\ call.error >= 0
           /\ LET dc == call.c_agg
                          - AggModel(call.NA_core[Len(call.NA_core)],
                                     call.c_NT)
                  dr == call.r_agg
                          - AggModel(call.NA_rim[Len(call.NA_rim)], call.r_NT)
              IN  /\ call.error = ErrorScale * (dr * dr + dc * dc)
                  /\ call.error = 0 => (dr = 0 /\ dc = 0)

---------------------------------------------------------------------------
(* Properties of get_durations, over the states of SpecDurations *)

\* get_durations has returned an array for a positive time step
DurationsReturned == call.pc = "durations" /\ model.dt > 0

\* C15 (as claimed): for every positive dt the checkpoints get_durations
\* returns start at 0.01 and are strictly increasing, so that every time
\* delta the loop of aggregate_and_cool forms from them is strictly
\* positive.
C15_DurationsStrictlyIncreasing ==
    DurationsReturned =>
        /\ call.durations[1] = 1
        /\ \A k \in 1..(Len(call.durations) - 1) :
             call.durations[k] < call.durations[k + 1]
        /\ \A i \in 0..(Len(call.durations) - 1) :
             TimeDelta(call.durations, i) > 0

\* C16 (as claimed): for every positive dt and age_core >= age_kimberlite
\* >= 0 the last checkpoint is age_core - age_kimberlite and no checkpoint
\* exceeds it.
C16_DurationsCoverExactly ==
    (DurationsReturned
        /\ model.diamond.age_core >= model.diamond.age_kimberlite
        /\ model.diamond.age_kimberlite >= 0)
        => LET duration_core == model.diamond.age_core
                                  - model.diamond.age_kimberlite
           IN  /\ call.durations[Len(call.durations)] = duration_core
               /\ \A k \in 1..Len(call.durations) :
                    call.durations[k] <= duration_core

---------------------------------------------------------------------------
(* Properties of the AggregationModel object, over the states of Spec *)

\* what section 7 of the specification calls a valid configuration
ValidConfig(m) ==
    /\ UnpackOk(m.T_scenario, m.scenario_params)
    /\ m.diamond.c_NT > 0 /\ m.diamond.r_NT > 0
    /\ m.diamond.age_rim <= m.diamond.age_core

\* C8 (as claimed): a model with scenario parameters of the wrong arity, a
\* non-positive total nitrogen or a rim older than the core is never built,
\* or else run and get_history raise on it: neither completes normally.
C8_InvalidConfigRejected ==
    (model.exists /\ ~ValidConfig(model)
        /\ last.op \in {"run", "get_history"})
        => last.exc # "none"

\* C9: the dictionary get_history returns reports the fitted pair if a run
\* has completed and the initial guesses otherwise, and its temperature and
\* concentration series are the engine's trace for the pair it reports.
C9_HistoryFromReportedPair ==
    (last.op = "get_history" /\ last.exc = "none")
        => LET pair == <<history.T_start, history.cooling_rate>>
               f == CallEngine(model, pair, TRUE)
           IN  /\ pair = IF model.fitted THEN model.model_results
                         ELSE <<model.T_start0, model.cooling_rate0>>
               /\ f.pc = "returned"
               /\ history.T_all = f.T_all
               /\ history.NA_core = f.NA_core
               /\ history.NA_rim = f.NA_rim

\* get_history has returned on a fitted model whose fitted pair differs
\* from the initial guesses and whose trace differs from the guesses' trace
C9_Witness ==
    /\ last.op = "get_history" /\ last.exc = "none"
    /\ model.fitted
    /\ model.model_results # <<model.T_start0, model.cooling_rate0>>
    /\ history.T_start = model.model_results[1]
    /\ history.T_all
         # CallEngine(model, <<model.T_start0, model.cooling_rate0>>,
                      TRUE).T_all

\* in every state: an unfitted model has no result attribute; a fitted one
\* has all four and they are the fields of the latest OptimizeResult; run
\* raises exactly what the objective raises, whatever the success flag
ResultWhole ==
    model.exists =>
        /\ ~model.fitted => model.attrs = {}
        /\ model.fitted =>
            /\ model.attrs = ResultAttrs
            /\ res.present
            /\ model.model_results = res.x
            /\ model.model_success = res.success
            /\ model.model_status = res.status
            /\ model.model_message = res.message
        /\ last.op = "run" =>
            /\ last.exc = ObjectiveRaises(model)
            /\ last.exc = "none" => model.fitted

\* in every step: fitted does not revert
FittedStays ==
    (model.exists /\ model.fitted) => (model'.exists /\ model'.fitted)

\* C10: the result is absent until a fit is run and is replaced as a whole
\* by each fit; run does not raise on non-convergence and sets fitted;
\* fitted never reverts to False.
C10_FitResultWhole == []ResultWhole /\ [][FittedStays]_vars

\* a run that did not converge has replaced the result of an earlier run:
\* the history on hand was computed from a different fitted pair
C10_Witness ==
    /\ last.op = "run" /\ last.exc = "none"
    /\ model.fitted /\ ~model.model_success
    /\ history.exists
    /\ history.T_start # model.T_start0
    /\ history.T_start # model.model_results[1]

\* the fields run assigns: the four result attributes (with the record of
\* which of them the object has) and the fitted flag
RunWrites == ResultAttrs \cup {"attrs", "fitted"}

\* in every step of an existing model: the model stays, every field other
\* than those run assigns keeps its value, and a get_history step leaves
\* every field as it is
FrameStep ==
    model.exists =>
        /\ model'.exists
        /\ DOMAIN model' = DOMAIN model
        /\ \A fld \in DOMAIN model \ RunWrites : model'[fld] = model[fld]
        /\ last'.op = "get_history" => model' = model

\* C11: run and get_history never change a Diamond field or a configuration
\* field; run writes only the result fields and the fitted flag, and
\* get_history writes nothing to the object.
C11_SampleAndConfigKept == [][FrameStep]_vars

\* get_history has returned on a model a run has fitted
C11_Witness ==
    /\ model.exists /\ model.fitted
    /\ model.attrs = ResultAttrs
    /\ last.op = "get_history" /\ last.exc = "none"
    /\ history.exists

---------------------------------------------------------------------------
(* Properties of to_json and from_json, over the states of SpecJson *)

ConfigFields ==
    {"cooling_rate0", "T_start0", "rate_bounds", "T_bounds", "dt",
     "T_scenario", "scenario_params", "cooling_function"}

\* loaded is from_json(to_json(model)): from_json has just returned, and
\* the file it read is what to_json writes for the model as it is
RoundTripped ==
    /\ last.op = "from_json" /\ last.exc = "none"
    /\ model.exists /\ file.exists /\ loaded.exists
    /\ file = to_json(model)

\* C12 (as claimed): from_json(to_json(model)) has the Sample fields, the
\* configuration fields (cooling law included) and the FitResult (fitted
\* state and fitted pair) of model, whether model is fitted or not.
C12_JsonRoundTrip ==
    RoundTripped =>
        /\ loaded.diamond = model.diamond
        /\ \A fld \in ConfigFields : loaded[fld] = model[fld]
        /\ loaded.fitted = model.fitted
        /\ model.fitted =>
            /\ "model_results" \in loaded.attrs
            /\ loaded.model_results = model.model_results

---------------------------------------------------------------------------
(* Properties of autoSNAC.model, over the states of SpecDriver *)

\* the driver has ended on a valid model: a valid configuration whose
\* objective can be evaluated
DriverEndedOnValidModel ==
    /\ last.op = "autoSNAC.model"
    /\ model.exists
    /\ ValidConfig(model)
    /\ ObjectiveRaises(model) = "none"

\* C17 (as claimed): given a valid model, or a valid Diamond with guesses
\* and bounds, the driver completes without error and has fitted the model
\* before reporting: the model is fitted, the file to_json wrote holds the
\* fitted pair, and the history save_history wrote is the fitted pair's.
C17_DriverFitsBeforeReporting ==
    DriverEndedOnValidModel =>
        /\ last.exc = "none"
        /\ model.fitted
        /\ "model_results" \in model.attrs
        /\ file.exists
        /\ "model_results" \in file.keys
        /\ file.model_results.initial_T = model.model_results[1]
        /\ history.exists
        /\ history.T_start = model.model_results[1]

===========================================================================
